---- MODULE Spec2Model ----
(***************************************************************************)
(* A model of the visualization scripts of kdd2020-chaoda:                 *)
(*   src/src/visualizations.py  (read_data, make_umap, plot_3d, main)      *)
(*   src/src/__main__.py        (build, plot_data, animate)                *)
(* The file system (the pickled embeddings under ../data/<d>/umap/, the    *)
(* frames under ../data/<d>/frames/, the manifolds under build/) is the    *)
(* state that outlives a call; each function is a sequence of steps of the *)
(* one Python process.                                                     *)
(***************************************************************************)
EXTENDS Integers, Sequences, FiniteSets, TLC

\* ------------------------------------------------------------------ bounds
\* A dataset has 1..MaxRows points.
MaxRows == 2
\* A dataset has 1..MaxCols dimensions (so below, at and above n_components).
MaxCols == 4
\* UMAP is stochastic (no random_state is passed): one of MaxSeed + 1 results.
MaxSeed == 1
\* The registry DATASETS holds MaxDatasets datasets.
MaxDatasets == 4

\* ------------------------------------------------------- program constants
\* range(0, 360) of plot_3d
SweepEnd == 360
\* the width of f'{azimuth:03d}'
PadWidth == 3
\* for n_neighbors in [32]
NNeighbors == 32
\* for n_components in [3]
NComponents == 3
\* pickle's opcodes PROTO (0x80) and STOP ('.'), which open and close a pickle
PROTO == 128
STOP == 46

VARIABLES
    files,      \* filename -> [exists, bytes]: the pickles under ../data/<d>/umap/
    upc,        \* make_umap: the position of the call in progress, or "idle"
    ufile,      \* make_umap: its filename argument
    urows,      \* make_umap: the number of rows of its data argument
    ucomp,      \* make_umap: its n_components argument
    uemb,       \* make_umap: its local variable embedding
    uout,       \* how the last call of make_umap ended, and with what
    uhit,       \* history: os.path.exists(filename) at the call's entry
    ufitted,    \* history: the call in progress (or the last) ran fit_transform
    uprev       \* history: filename -> what the last call that returned, returned

cacheVars == <<files, upc, ufile, urows, ucomp, uemb, uout, uhit, ufitted, uprev>>

VARIABLES
    mpc,        \* main: its position, or "idle"
    mdata,      \* main: data, as read_data returned it
    mlabels,    \* main: labels
    mfilename,  \* main: filename
    membedding, \* main: embedding
    mstages,    \* history: the stages the job of this run has been through
    mfiles0,    \* history: the pickles on disk when main started
    ppc,        \* plot_3d: its position, or "idle"
    paz,        \* plot_3d: azimuth
    pvalid,     \* history: the data argument of the call had its three columns
    pfailed,    \* history: the azimuths whose savefig raised in this call
    frames,     \* the files under ../data/<d>/frames/
    video,      \* whether <dataset>/<metric>-30fps.mp4 exists
    encoderSaw, \* history: how many frames were on disk at each run of ffmpeg
    out         \* the command that ended last, and how it ended

mainVars == <<mpc, mdata, mlabels, mfilename, membedding, mstages, mfiles0>>
plotVars == <<ppc, paz, pvalid, pfailed>>
diskVars == <<frames, video, encoderSaw>>
pipeVars == <<mainVars, plotVars, diskVars, out>>

VARIABLES
    bpc,        \* build: its position, or "idle"
    bdatasets,  \* build: datasets
    bmetrics,   \* build: metrics
    bi,         \* build: the index of the dataset of the outer loop
    bj,         \* build: the index of the metric of the inner loop
    bstarted,   \* history: the (dataset, metric) pairs this run has started
    bdumped,    \* history: the pairs whose manifold this run has dumped
    bout        \* how the last run of build ended

buildVars == <<bpc, bdatasets, bmetrics, bi, bj, bstarted, bdumped, bout>>

vars == <<cacheVars, pipeVars, buildVars>>

\* ---------------------------------------------------------------- helpers
Min(a, b) == IF a < b THEN a ELSE b

\* A matrix is a sequence of rows, each a sequence of numbers.
Rows(m) == Len(m)
Cols(m) == IF Len(m) = 0 THEN 0 ELSE Len(m[1])

\* numpy's m[:, :k]: slicing clamps at the array's width.
FirstCols(m, k) == [i \in 1..Len(m) |-> SubSeq(m[i], 1, Min(k, Len(m[i])))]

\* row-major flattening of a matrix
Flatten(m) == LET RECURSIVE go(_)
                  go(i) == IF i > Len(m) THEN <<>> ELSE m[i] \o go(i + 1)
              IN go(1)

\* a variable that holds no array
NoValue == <<>>

\* ------------------------------------------------------------ the cache key
Metrics == {"euclidean"}
Datasets == {"optdigits"}

\* main's f'../data/{dataset}/umap/{n_neighbors}-{n_components}d-{metric}.pickle'
Filename(dataset, n_neighbors, n_components, metric) ==
    <<"../data/", dataset, "/umap/", n_neighbors, "-", n_components, "d-", metric,
      ".pickle">>

\* The embeddings the scripts ask for: 3-d (plot_3d) and 2-d (plot_2d).
Components == {2, NComponents}

Filenames == {Filename(d, NNeighbors, c, m) : d \in Datasets, c \in Components, m \in Metrics}

\* ------------------------------------------------------------------ pickle
\* pickle.dump(embedding, outfile): PROTO, the array's shape, its values, STOP.
Pickle(m) == <<PROTO, Rows(m), Cols(m)>> \o Flatten(m) \o <<STOP>>

\* Whether pickle.load reads the bytes to the end: a truncated pickle has no
\* STOP opcode (or not even its header) and raises.
PickleOk(b) ==
    /\ Len(b) >= 4
    /\ b[1] = PROTO
    /\ b[2] >= 1
    /\ b[3] >= 1
    /\ Len(b) = 4 + b[2] * b[3]
    /\ b[Len(b)] = STOP

\* pickle.load(infile) of a complete pickle
PickleLoad(b) == [i \in 1..b[2] |-> [j \in 1..b[3] |-> b[3 + (i - 1) * b[3] + j]]]

\* umap.UMAP(...).fit_transform(data): an N x n_components array, one of the
\* results the stochastic optimisation may give.
UmapFit(n, c, seed) == [i \in 1..n |-> [j \in 1..c |-> (i + j + seed) % (MaxSeed + 1)]]

\* ----------------------------------------------------------- make_umap
NoFile == [exists |-> FALSE, bytes |-> <<>>]

\* os.path.exists(filename)
CacheNeverHit(f) == FALSE
CacheHit(f) == files[f].exists

MakeUmapCall(f, n, c) ==
    /\ upc = "idle"
    /\ ufile' = f
    /\ urows' = n
    /\ ucomp' = c
    /\ uhit' = files[f].exists
    /\ ufitted' = FALSE
    /\ uemb' = NoValue
    /\ uprev' = IF uout.how = "returned"
                THEN [uprev EXCEPT ![ufile] = uout.value]
                ELSE uprev
    /\ uout' = [how |-> "running", value |-> NoValue]
    /\ upc' = IF CacheHit(f) THEN "load" ELSE "fit"
    /\ UNCHANGED files
    /\ UNCHANGED <<pipeVars, buildVars>>

\* with open(filename, 'rb') as infile: embedding = pickle.load(infile)
MakeUmapLoad ==
    /\ upc = "load"
    /\ IF PickleOk(files[ufile].bytes)
       THEN /\ uemb' = PickleLoad(files[ufile].bytes)
            /\ upc' = "return"
            /\ UNCHANGED uout
       ELSE /\ uout' = [how |-> "raised", value |-> NoValue]
            /\ upc' = "idle"
            /\ UNCHANGED uemb
    /\ UNCHANGED <<files, ufile, urows, ucomp, uhit, ufitted, uprev>>
    /\ UNCHANGED <<pipeVars, buildVars>>

\* embedding = umap.UMAP(...).fit_transform(data)
MakeUmapFit ==
    /\ upc = "fit"
    /\ \E seed \in 0..MaxSeed : uemb' = UmapFit(urows, ucomp, seed)
    /\ ufitted' = TRUE
    /\ upc' = "open"
    /\ UNCHANGED <<files, ufile, urows, ucomp, uout, uhit, uprev>>
    /\ UNCHANGED <<pipeVars, buildVars>>

\* with open(filename, 'wb') as outfile: the file is created, or truncated.
MakeUmapOpen ==
    /\ upc = "open"
    /\ files' = [files EXCEPT ![ufile] = [exists |-> TRUE, bytes |-> <<>>]]
    /\ upc' = "dump"
    /\ UNCHANGED <<ufile, urows, ucomp, uemb, uout, uhit, ufitted, uprev>>
    /\ UNCHANGED <<pipeVars, buildVars>>

\* pickle.dump(embedding, outfile), and the with-block closes the file
MakeUmapDump ==
    /\ upc = "dump"
    /\ files' = [files EXCEPT ![ufile].bytes = Pickle(uemb)]
    /\ upc' = "return"
    /\ UNCHANGED <<ufile, urows, ucomp, uemb, uout, uhit, ufitted, uprev>>
    /\ UNCHANGED <<pipeVars, buildVars>>

\* pickle.dump raises part-way (the disk is full, the process is interrupted):
\* what was written so far stays in the file, the exception leaves make_umap.
MakeUmapDumpFails ==
    /\ upc = "dump"
    /\ \E k \in 0..(Len(Pickle(uemb)) - 1) :
          files' = [files EXCEPT ![ufile].bytes = SubSeq(Pickle(uemb), 1, k)]
    /\ uout' = [how |-> "raised", value |-> NoValue]
    /\ upc' = "idle"
    /\ UNCHANGED <<ufile, urows, ucomp, uemb, uhit, ufitted, uprev>>
    /\ UNCHANGED <<pipeVars, buildVars>>

\* return embedding
MakeUmapReturn ==
    /\ upc = "return"
    /\ uout' = [how |-> "returned", value |-> uemb]
    /\ upc' = "idle"
    /\ UNCHANGED <<files, ufile, urows, ucomp, uemb, uhit, ufitted, uprev>>
    /\ UNCHANGED <<pipeVars, buildVars>>

CacheInit ==
    /\ upc = "idle"
    /\ ufile = Filename("optdigits", NNeighbors, NComponents, "euclidean")
    /\ urows = 1
    /\ ucomp = NComponents
    /\ uemb = NoValue
    /\ uout = [how |-> "none", value |-> NoValue]
    /\ uhit = FALSE
    /\ ufitted = FALSE
    /\ uprev = [f \in Filenames |-> NoValue]

CacheNext ==
    \/ \E f \in Filenames, n \in 1..MaxRows, c \in Components : MakeUmapCall(f, n, c)
    \/ MakeUmapLoad
    \/ MakeUmapFit
    \/ MakeUmapOpen
    \/ MakeUmapDump
    \/ MakeUmapDumpFails
    \/ MakeUmapReturn


\* ----------------------------------------------------------- read_data
\* The contents of ../data/<dataset>/<dataset>.mat: X, an n x d array.
RawData(n, d, seed) == [i \in 1..n |-> [j \in 1..d |-> (i * j + seed) % (MaxSeed + 1)]]

\* y, one label per row
RawLabels(n, seed) == [i \in 1..n |-> (i + seed) % 2]

ColMin(m, j) == CHOOSE x \in {m[i][j] : i \in 1..Len(m)} :
                    \A i \in 1..Len(m) : x <= m[i][j]
ColMax(m, j) == CHOOSE x \in {m[i][j] : i \in 1..Len(m)} :
                    \A i \in 1..Len(m) : x >= m[i][j]

\* min_max_normalization(data): a normalised value is the fraction
\* <<numerator, denominator>>; a constant column becomes 0.5.
MinMaxNormalization(m) ==
    [i \in 1..Len(m) |->
        [j \in 1..Len(m[i]) |->
            IF ColMin(m, j) = ColMax(m, j)
            THEN <<1, 2>>
            ELSE <<m[i][j] - ColMin(m, j), ColMax(m, j) - ColMin(m, j)>>]]

\* read_data(dataset, normalize)
ReadData(raw, normalize) == IF normalize THEN MinMaxNormalization(raw) ELSE raw

\* ------------------------------------------------------------------- main
\* for dataset in ['optdigits'] / for metric in metrics: one job a run
MainDataset == "optdigits"
MainMetric == "euclidean"

Idle == mpc = "idle" /\ ppc = "idle"

\* What a command that starts leaves of the command before it: nothing.
NoMain ==
    /\ mdata' = NoValue
    /\ mlabels' = <<>>
    /\ mfilename' = <<>>
    /\ membedding' = NoValue
    /\ mstages' = <<>>
    /\ mfiles0' = files

NoPlot ==
    /\ paz' = 0
    /\ pvalid' = TRUE
    /\ pfailed' = {}

Running(c) == [cmd |-> c, how |-> "running"]
Returned(c) == [cmd |-> c, how |-> "returned"]
Raised(c) == [cmd |-> c, how |-> "raised"]

\* main(): make_dirs(datasets), which leaves the pickles and the frames alone
MainStart ==
    /\ Idle
    /\ NoMain
    /\ NoPlot
    /\ mpc' = "read"
    /\ ppc' = "idle"
    /\ out' = Running("main")
    /\ UNCHANGED <<diskVars, cacheVars, buildVars>>

\* normalize = dataset not in ['mnist']; data, labels = read_data(dataset, normalize)
MainReadData ==
    /\ mpc = "read"
    /\ \E n \in 1..MaxRows, d \in 1..MaxCols, seed \in 0..MaxSeed :
          /\ mdata' = ReadData(RawData(n, d, seed), MainDataset \notin {"mnist"})
          /\ mlabels' = RawLabels(n, seed)
    /\ mstages' = <<"Pending">>
    /\ mpc' = "embed"
    /\ UNCHANGED <<mfilename, membedding, mfiles0, plotVars, diskVars, out>>
    /\ UNCHANGED <<cacheVars, buildVars>>

\* read_data raises (no such file, no 'X' in it): main has no handler
MainReadFails ==
    /\ mpc = "read"
    /\ out' = Raised("main")
    /\ mpc' = "idle"
    /\ UNCHANGED <<mdata, mlabels, mfilename, membedding, mstages, mfiles0>>
    /\ UNCHANGED <<plotVars, diskVars, cacheVars, buildVars>>

\* if data.shape[1] > n_components: embedding = data  else: embedding = data
MainEmbeddingCut(data, n_components) == FirstCols(data, n_components - 1)
MainEmbedding(data, n_components) ==
    IF Cols(data) > n_components THEN data ELSE data

MainEmbed ==
    /\ mpc = "embed"
    /\ mfilename' = Filename(MainDataset, NNeighbors, NComponents, MainMetric)
    /\ membedding' = MainEmbedding(mdata, NComponents)
    /\ mstages' = Append(mstages, "EmbeddingReady")
    /\ mpc' = "plot"
    /\ UNCHANGED <<mdata, mlabels, mfiles0, plotVars, diskVars, out>>
    /\ UNCHANGED <<cacheVars, buildVars>>

\* title = ...; if n_components == 3: pass; the loops end; return
MainReturn ==
    /\ mpc = "plot"
    /\ out' = Returned("main")
    /\ mpc' = "idle"
    /\ UNCHANGED <<mdata, mlabels, mfilename, membedding, mstages, mfiles0>>
    /\ UNCHANGED <<plotVars, diskVars, cacheVars, buildVars>>

\* ---------------------------------------------------------------- plot_3d
\* the decimal digits of n >= 0
Digits(n) == LET RECURSIVE go(_)
                 go(k) == IF k < 10 THEN <<k>> ELSE go(k \div 10) \o <<k % 10>>
             IN go(n)

\* f'{azimuth:03d}': the digits, zero-filled on the left up to the width
ZeroPad(s, w) == LET RECURSIVE go(_)
                     go(t) == IF Len(t) >= w THEN t ELSE go(<<0>> \o t)
                 IN go(s)

Format02d(n) == ZeroPad(Digits(n), PadWidth - 1)
Format03d(n) == ZeroPad(Digits(n), PadWidth)

\* folder = f'../data/{dataset}/frames/{metric}-'
Folder == "../data/optdigits/frames/euclidean-"

\* folder + f'{azimuth:03d}.png'
FrameFile(folder, azimuth) == <<folder>> \o Format03d(azimuth) \o <<".png">>

\* plot_3d(data, labels, title, folder): x, y, z = data[:, 0], data[:, 1], data[:, 2]
\* raises IndexError on data of fewer than three columns.
PlotCall(d) ==
    /\ Idle
    /\ NoMain
    /\ pvalid' = (d >= 3)
    /\ paz' = 0
    /\ pfailed' = {}
    /\ mpc' = "idle"
    /\ IF d >= 3
       THEN ppc' = "loop" /\ out' = Running("plot_3d")
       ELSE ppc' = "idle" /\ out' = Raised("plot_3d")
    /\ UNCHANGED <<diskVars, cacheVars, buildVars>>

\* for azimuth in range(0, 360): ax.view_init(...); plt.savefig(...)
PlotSave ==
    /\ ppc = "loop"
    /\ paz < SweepEnd
    /\ frames' = frames \cup {FrameFile(Folder, paz)}
    /\ paz' = paz + 1
    /\ UNCHANGED <<ppc, pvalid, pfailed, video, encoderSaw, out>>
    /\ UNCHANGED <<mainVars, cacheVars, buildVars>>

\* plt.savefig raises (no such folder, the disk is full): the exception leaves
\* the loop and plot_3d.
PlotSaveFails ==
    /\ ppc = "loop"
    /\ paz < SweepEnd
    /\ pfailed' = pfailed \cup {paz}
    /\ out' = Raised("plot_3d")
    /\ ppc' = "idle"
    /\ UNCHANGED <<paz, pvalid, diskVars>>
    /\ UNCHANGED <<mainVars, cacheVars, buildVars>>

\* plt.close('all'); return
PlotReturn ==
    /\ ppc = "loop"
    /\ paz = SweepEnd
    /\ out' = Returned("plot_3d")
    /\ ppc' = "idle"
    /\ UNCHANGED <<paz, pvalid, pfailed, diskVars>>
    /\ UNCHANGED <<mainVars, cacheVars, buildVars>>

\* ---------------------------------------------------- animate, plot_data
\* What animate would do were its run([...'ffmpeg'...]) reached.
AnimateEncodes ==
    /\ Idle
    /\ NoMain
    /\ NoPlot
    /\ mpc' = "idle"
    /\ ppc' = "idle"
    /\ encoderSaw' = encoderSaw \cup {Cardinality(frames)}
    /\ video' = TRUE
    /\ out' = Returned("animate")
    /\ UNCHANGED <<frames, cacheVars, buildVars>>

\* animate(dataset, metric): raise NotImplementedError
Animate ==
    /\ Idle
    /\ NoMain
    /\ NoPlot
    /\ mpc' = "idle"
    /\ ppc' = "idle"
    /\ out' = Raised("animate")
    /\ UNCHANGED <<diskVars, cacheVars, buildVars>>

\* plot_data(): raise NotImplementedError
PlotData ==
    /\ Idle
    /\ NoMain
    /\ NoPlot
    /\ mpc' = "idle"
    /\ ppc' = "idle"
    /\ out' = Raised("plot_data")
    /\ UNCHANGED <<diskVars, cacheVars, buildVars>>

\* The pickle of the job of main may be absent, truncated (a dump that failed
\* left it so) or complete.
PipeFiles ==
    LET f3 == Filename(MainDataset, NNeighbors, NComponents, MainMetric)
        some == {NoFile,
                 [exists |-> TRUE, bytes |-> <<>>],
                 [exists |-> TRUE, bytes |-> Pickle(UmapFit(1, NComponents, 0))]}
    IN {[f \in Filenames |-> IF f = f3 THEN x ELSE NoFile] : x \in some}

PipeInit ==
    /\ mpc = "idle"
    /\ mdata = NoValue
    /\ mlabels = <<>>
    /\ mfilename = <<>>
    /\ membedding = NoValue
    /\ mstages = <<>>
    /\ mfiles0 = files
    /\ ppc = "idle"
    /\ paz = 0
    /\ pvalid = TRUE
    /\ pfailed = {}
    /\ frames = {}
    /\ video = FALSE
    /\ encoderSaw = {}
    /\ out = [cmd |-> "none", how |-> "none"]

PipeNext ==
    \/ MainStart
    \/ MainReadData
    \/ MainReadFails
    \/ MainEmbed
    \/ MainReturn
    \/ \E d \in 1..MaxCols : PlotCall(d)
    \/ PlotSave
    \/ PlotSaveFails
    \/ PlotReturn
    \/ Animate
    \/ PlotData

MainNext ==
    \/ MainStart
    \/ MainReadData
    \/ MainReadFails
    \/ MainEmbed
    \/ MainReturn

\* ------------------------------------------------------------------ build
\* the keys of DATASETS, in the order of the dict
AllDatasets == <<"mnist", "cover", "letter", "http", "smtp", "shuttle", "satellite",
                 "mammography", "annthyroid", "breastw", "vowels", "musk",
                 "satimage-2", "wine", "pendigits", "optdigits">>
DatasetKeys == SubSeq(AllDatasets, 1, Min(MaxDatasets, Len(AllDatasets)))

\* the keys of METRICS, in the order of the dict
MetricKeys == <<"cosine", "euclidean", "manhattan">>

Range(s) == {s[i] : i \in 1..Len(s)}

\* The values click lets through: both options are click.Choice(DATASETS.keys());
\* an option that is not given is None.
None == "None"
BuildOptions == Range(DatasetKeys) \cup {None}

Pairs(ds, ms) == {<<ds[i], ms[j]>> : i \in 1..Len(ds), j \in 1..Len(ms)}

\* build(dataset, metric, max_depth, graph_ratio):
\* datasets = [dataset] if dataset else DATASETS.keys(); metrics likewise
BuildCall(dataset, metric) ==
    /\ bpc = "idle"
    /\ bdatasets' = IF dataset # None THEN <<dataset>> ELSE DatasetKeys
    /\ bmetrics' = IF metric # None THEN <<metric>> ELSE MetricKeys
    /\ bi' = 1
    /\ bj' = 1
    /\ bstarted' = {}
    /\ bdumped' = {}
    /\ bout' = "running"
    /\ bpc' = "get"
    /\ UNCHANGED <<cacheVars, pipeVars>>

\* for dataset in datasets: get(dataset); data, labels = read(dataset)
BuildGet ==
    /\ bpc = "get"
    /\ bi <= Len(bdatasets)
    /\ bj' = 1
    /\ bpc' = "manifold"
    /\ UNCHANGED <<bdatasets, bmetrics, bi, bstarted, bdumped, bout>>
    /\ UNCHANGED <<cacheVars, pipeVars>>

\* get or read raises (no download, no such file): build has no handler, and
\* every pair of this dataset has failed at loading.
BuildGetFails ==
    /\ bpc = "get"
    /\ bi <= Len(bdatasets)
    /\ bstarted' = bstarted \cup {<<bdatasets[bi], bmetrics[j]>> : j \in 1..Len(bmetrics)}
    /\ bout' = "raised"
    /\ bpc' = "idle"
    /\ UNCHANGED <<bdatasets, bmetrics, bi, bj, bdumped>>
    /\ UNCHANGED <<cacheVars, pipeVars>>

\* for metric in metrics: Manifold(data, METRICS[metric]), manifold.build(...),
\* manifold.dump(fp). METRICS[metric] raises KeyError for a metric that is no
\* key of METRICS.
BuildManifold ==
    /\ bpc = "manifold"
    /\ bj <= Len(bmetrics)
    /\ bstarted' = bstarted \cup {<<bdatasets[bi], bmetrics[bj]>>}
    /\ IF bmetrics[bj] \in Range(MetricKeys)
       THEN /\ bdumped' = bdumped \cup {<<bdatasets[bi], bmetrics[bj]>>}
            /\ bj' = bj + 1
            /\ UNCHANGED <<bpc, bout>>
       ELSE /\ bout' = "raised"
            /\ bpc' = "idle"
            /\ UNCHANGED <<bdumped, bj>>
    /\ UNCHANGED <<bdatasets, bmetrics, bi>>
    /\ UNCHANGED <<cacheVars, pipeVars>>

\* manifold.build or the dump raises (no memory, no build directory)
BuildManifoldFails ==
    /\ bpc = "manifold"
    /\ bj <= Len(bmetrics)
    /\ bmetrics[bj] \in Range(MetricKeys)
    /\ bstarted' = bstarted \cup {<<bdatasets[bi], bmetrics[bj]>>}
    /\ bout' = "raised"
    /\ bpc' = "idle"
    /\ UNCHANGED <<bdatasets, bmetrics, bi, bj, bdumped>>
    /\ UNCHANGED <<cacheVars, pipeVars>>

\* the inner loop ends: the next dataset
BuildNextDataset ==
    /\ bpc = "manifold"
    /\ bj > Len(bmetrics)
    /\ bi' = bi + 1
    /\ bpc' = "get"
    /\ UNCHANGED <<bdatasets, bmetrics, bj, bstarted, bdumped, bout>>
    /\ UNCHANGED <<cacheVars, pipeVars>>

\* the outer loop ends: build returns
BuildReturn ==
    /\ bpc = "get"
    /\ bi > Len(bdatasets)
    /\ bout' = "returned"
    /\ bpc' = "idle"
    /\ UNCHANGED <<bdatasets, bmetrics, bi, bj, bstarted, bdumped>>
    /\ UNCHANGED <<cacheVars, pipeVars>>

BuildInit ==
    /\ bpc = "idle"
    /\ bdatasets = <<>>
    /\ bmetrics = <<>>
    /\ bi = 1
    /\ bj = 1
    /\ bstarted = {}
    /\ bdumped = {}
    /\ bout = "none"

BuildNext ==
    \/ \E dataset \in BuildOptions, metric \in BuildOptions : BuildCall(dataset, metric)
    \/ BuildGet
    \/ BuildGetFails
    \/ BuildManifold
    \/ BuildManifoldFails
    \/ BuildNextDataset
    \/ BuildReturn

\* ---------------------------------------------------------- specifications
\* calls of make_umap, on a data directory that starts without pickles
Init ==
    /\ files = [f \in Filenames |-> NoFile]
    /\ CacheInit
    /\ PipeInit
    /\ BuildInit
Next == CacheNext
Spec == Init /\ [][Next]_vars

\* runs of main, on a data directory that a run of make_umap may have left
InitMain ==
    /\ files \in PipeFiles
    /\ CacheInit
    /\ PipeInit
    /\ BuildInit
NextMain == MainNext
SpecMain == InitMain /\ [][NextMain]_vars

\* runs of main, plot_3d, animate and plot_data
InitPipeline == Init
NextPipeline == PipeNext
SpecPipeline == InitPipeline /\ [][NextPipeline]_vars

\* runs of build
InitBuild == Init
NextBuild == BuildNext
SpecBuild == InitBuild /\ [][NextBuild]_vars

\* ------------------------------------------------------------- properties
IsPrefix(s, t) == Len(s) <= Len(t) /\ s = SubSeq(t, 1, Len(s))

Corrupt(file) == file.exists /\ ~PickleOk(file.bytes)

\* C1: a call of make_umap that finds a file at its filename never runs
\* fit_transform; it raises only if the file is no complete pickle, and when
\* it returns, it returns what unpickling that file gives; and a call that
\* returns after an earlier call with the same filename has returned, returns
\* the same embedding without running fit_transform.
CacheIdempotence ==
    /\ uhit => ~ufitted
    /\ (upc = "idle" /\ uout.how = "raised" /\ uhit) => Corrupt(files[ufile])
    /\ (uout.how = "returned" /\ uhit) =>
           uout.value = PickleLoad(files[ufile].bytes)
    /\ (uout.how = "returned" /\ uprev[ufile] # NoValue) =>
           uhit /\ ~ufitted /\ uout.value = uprev[ufile]

\* C1's case: a second call with the same filename has returned from the file.
SecondCallReturned ==
    /\ uout.how = "returned"
    /\ uhit
    /\ uprev[ufile] # NoValue
    /\ files[ufile].bytes = Pickle(uout.value)

\* C2: when no call of make_umap is in progress, a file that exists at a
\* filename holds a complete pickle (the claim says so of every state, a
\* failed write included).
AtomicPersist ==
    upc = "idle" => \A f \in Filenames : files[f].exists => PickleOk(files[f].bytes)

\* What make_umap itself does with a corrupt file (C3's first half): the call
\* raises, has not run fit_transform, returns nothing and leaves the file.
CorruptArtifactRaises ==
    (upc = "idle" /\ uout.how # "none" /\ uhit /\ Corrupt(files[ufile])) =>
        uout.how = "raised" /\ ~ufitted /\ uout.value = NoValue

\* C3: with a corrupt pickle at the filename of its job, and data of more
\* dimensions than n_components, main does not get to use an embedding: the
\* job fails.
CorruptionFailsJob ==
    ~ /\ Len(mstages) >= 2
      /\ Cols(mdata) > NComponents
      /\ Corrupt(files[mfilename])

\* the files of a sweep: the folder, three digits, ".png"
ExpectedFrame(a) == <<Folder, a \div 100, (a \div 10) % 10, a % 10, ".png">>
ExpectedFrames == {ExpectedFrame(a) : a \in 0..(SweepEnd - 1)}

\* C4: a call of plot_3d on data of three columns in which no savefig raises
\* returns, and has then gone through the 360 azimuths and left exactly the
\* 360 files <folder>000.png .. <folder>359.png, all distinct.
SweepCompleteness ==
    /\ (out.cmd = "plot_3d" /\ ppc = "idle" /\ pvalid /\ pfailed = {}) =>
           out.how = "returned"
    /\ out = Returned("plot_3d") =>
           /\ paz = SweepEnd
           /\ pfailed = {}
           /\ frames = ExpectedFrames
           /\ Cardinality(frames) = SweepEnd

\* C4's case: a sweep has returned.
SweepReturned == out = Returned("plot_3d") /\ Cardinality(frames) = SweepEnd

\* C5: a call of plot_3d in which the savefig of one azimuth raised has gone
\* through all 360 azimuths and has written the file of every other one.
PartialFailureIsolation ==
    (out.cmd = "plot_3d" /\ ppc = "idle" /\ Cardinality(pfailed) = 1) =>
        /\ paz = SweepEnd
        /\ \A a \in (0..(SweepEnd - 1)) \ pfailed : FrameFile(Folder, a) \in frames

StageOrder == <<"Pending", "EmbeddingReady", "FramesReady", "Encoded">>

JobIsolation ==
    (bpc = "idle" /\ bout \in {"returned", "raised"}) =>
        bstarted = Pairs(bdatasets, bmetrics)

\* C9: when the data of main has at most n_components columns, the embedding
\* it uses is the first n_components columns of the data, no reduction has
\* run and no pickle has been written.
PassThrough ==
    /\ mpc # "idle" => files = mfiles0 /\ upc = "idle" /\ ~ufitted
    /\ (Len(mstages) >= 2 /\ Cols(mdata) <= NComponents) =>
           /\ membedding = FirstCols(mdata, NComponents)
           /\ files = mfiles0
           /\ ~ufitted

\* C9's case: main has its embedding of data of fewer, or as many, columns.
PassThroughTaken ==
    /\ mpc = "plot"
    /\ Cols(mdata) = NComponents
    /\ Rows(mdata) >= 2

\* C10: the embedding main has for the rendering has the rows of the data and
\* n_components columns, and for data of more columns it is what the
\* reduction gave (computed in this run, or unpickled), not the data.
EmbeddingShape ==
    Len(mstages) >= 2 =>
        /\ Rows(membedding) = Rows(mdata)
        /\ Cols(membedding) = NComponents
        /\ Cols(mdata) > NComponents =>
               \/ ufitted
               \/ /\ files[mfilename].exists
                  /\ PickleOk(files[mfilename].bytes)
                  /\ membedding = PickleLoad(files[mfilename].bytes)

====
